---------------------------- MODULE Spec2Model ----------------------------
(***************************************************************************)
(* The log/output redaction engine of terraform-provider-yggdrasil         *)
(* (internal/utils/redaction.go).                                          *)
(*                                                                         *)
(* A Go string is a sequence of bytes.  A byte below 0x80 is written as    *)
(* the one-character string of its ASCII character ("a", "-", "{"); a byte *)
(* of 0x80 and above is written as its hexadecimal value between angle     *)
(* brackets ("<E2>").  len(s) is Len(s) and s[i:j] is SubSeq(s, i+1, j).   *)
(*                                                                         *)
(* A Go value of type any is a tuple <<type, payload>>:                    *)
(*   <<"string", bytes>>  <<"float64", n>>  <<"bool", b>>  <<"nil">>       *)
(*   <<"map[string]any", [keys -> values]>>                                *)
(*   <<"map[string]string", [keys -> bytes]>>                              *)
(*   <<"[]any", <<values>>>>                                               *)
(*                                                                         *)
(* Where the identity of a map, a slice or a buffer matters, it is an      *)
(* object of the heap, a sequence of objects <<type, payload>> whose       *)
(* indices are the addresses, and a value that holds it is <<"ref", a>>.   *)
(***************************************************************************)
EXTENDS Integers, Sequences, FiniteSets, TLC

VARIABLES pc, fn, arg, out, calls, heap, client, log

vars == <<pc, fn, arg, out, calls, heap, client, log>>

(***************************************************************************)
(* Bytes and strings                                                       *)
(***************************************************************************)

\* The bytes of an ASCII string literal.
B(s) == [i \in 1..Len(s) |-> SubSeq(s, i, i)]

Range(s) == {s[i] : i \in 1..Len(s)}

upperLetters == B("ABCDEFGHIJKLMNOPQRSTUVWXYZ")

lowerLetters == B("abcdefghijklmnopqrstuvwxyz")

toLowerTable == [c \in Range(upperLetters) |->
                   lowerLetters[CHOOSE i \in 1..Len(upperLetters) : upperLetters[i] = c]]

\* strings.ToLower on a string whose letters are ASCII: A-Z map to a-z and
\* every other byte (the bytes of well-formed multi-byte characters without a
\* lower-case form included) is kept.
ToLower(s) == [i \in 1..Len(s) |->
                 IF s[i] \in DOMAIN toLowerTable THEN toLowerTable[s[i]] ELSE s[i]]

\* strings.Contains
Contains(s, sub) ==
    \E i \in 1..(Len(s) - Len(sub) + 1) : SubSeq(s, i, i + Len(sub) - 1) = sub

\* strings.EqualFold on ASCII names
EqualFold(a, b) == ToLower(a) = ToLower(b)

(***************************************************************************)
(* Constants of redaction.go                                               *)
(***************************************************************************)

RedactionMask == B("****")

maxPreviewLen == 16

\* The literal "..." of TruncatePreview is U+2026, three bytes in UTF-8.
ellipsis == <<"<E2>", "<80>", "<A6>">>

sensitiveKeySubstr ==
    << B("token"), B("secret"), B("password"), B("passwd"), B("apikey"),
       B("api_key"), B("authorization"), B("auth"), B("credential"),
       B("private"), B("key"), B("cert"), B("certificate"), B("pem"),
       B("jwt"), B("bearer"), B("value") >>

(***************************************************************************)
(* IsSensitiveKey, TruncatePreview, SafeValue                              *)
(***************************************************************************)

RECURSIVE isSensitiveFrom(_, _)
\* the loop of IsSensitiveKey from vocabulary entry i on
isSensitiveFrom(k, i) ==
    IF i > Len(sensitiveKeySubstr) THEN FALSE
    ELSE IF Contains(k, sensitiveKeySubstr[i]) THEN TRUE
    ELSE isSensitiveFrom(k, i + 1)

\* A classifier that forgets to lower-case the key.
IsSensitiveKeyCaseSensitive(key) == isSensitiveFrom(key, 1)

IsSensitiveKey(key) == isSensitiveFrom(ToLower(key), 1)

\* A preview that keeps one byte too many at the head.
TruncatePreviewLongHead(s) ==
    IF Len(s) <= maxPreviewLen THEN s
    ELSE SubSeq(s, 1, (maxPreviewLen \div 2) + 1) \o ellipsis
         \o SubSeq(s, Len(s) - (maxPreviewLen \div 2) + 1, Len(s))

TruncatePreview(s) ==
    IF Len(s) <= maxPreviewLen THEN s
    ELSE LET head == SubSeq(s, 1, maxPreviewLen \div 2)
             tail == SubSeq(s, Len(s) - (maxPreviewLen \div 2) + 1, Len(s))
         IN  head \o ellipsis \o tail

SafeValue(key, v) ==
    IF IsSensitiveKey(key) THEN <<"string", RedactionMask>>
    ELSE IF v[1] = "string" THEN <<"string", TruncatePreview(v[2])>>
    ELSE v

(***************************************************************************)
(* SafeFields                                                              *)
(***************************************************************************)

\* the inner loop of SafeFields over a map[string]string
safeStringMap(t) == [kk \in DOMAIN t |-> SafeValue(kk, <<"string", t[kk]>>)]

RECURSIVE SafeFieldsMaskFirst(_)
\* A walker that classifies the key before it looks at the value's type.
SafeFieldsMaskFirst(in) ==
    [k \in DOMAIN in |->
        IF IsSensitiveKey(k) THEN <<"string", RedactionMask>>
        ELSE IF in[k][1] = "map[string]any"
            THEN <<"map[string]any", SafeFieldsMaskFirst(in[k][2])>>
        ELSE IF in[k][1] = "map[string]string"
            THEN <<"map[string]any", safeStringMap(in[k][2])>>
        ELSE SafeValue(k, in[k])]

RECURSIVE SafeFields(_)
SafeFields(in) ==
    [k \in DOMAIN in |->
        IF in[k][1] = "map[string]any"
            THEN <<"map[string]any", SafeFields(in[k][2])>>
        ELSE IF in[k][1] = "map[string]string"
            THEN <<"map[string]any", safeStringMap(in[k][2])>>
        ELSE SafeValue(k, in[k])]

(***************************************************************************)
(* RedactHTTPHeaders                                                       *)
(***************************************************************************)

\* A redactor that leaves the Cookie header to the vocabulary.
RedactHTTPHeadersNoCookie(h) ==
    [k \in DOMAIN h |->
        IF IsSensitiveKey(k) \/ EqualFold(k, B("Authorization"))
            THEN <<RedactionMask>>
        ELSE [i \in 1..Len(h[k]) |-> TruncatePreview(h[k][i])]]

\* An http.Header is a function from the header names to their value lists.
RedactHTTPHeaders(h) ==
    [k \in DOMAIN h |->
        IF \/ IsSensitiveKey(k)
           \/ EqualFold(k, B("Authorization"))
           \/ EqualFold(k, B("Cookie"))
            THEN <<RedactionMask>>
        ELSE [i \in 1..Len(h[k]) |-> TruncatePreview(h[k][i])]]

(***************************************************************************)
(* net/url: the part of Parse, Query, Values.Encode and URL.String that    *)
(* RedactURLQuery goes through.  A raw URL is <scheme://host/path>, then   *)
(* "?" and the query; the inputs have no fragment and no user info.        *)
(***************************************************************************)

\* The printable ASCII characters in code order, from 0x20 on (the grave
\* accent, 0x60, by its code).
asciiPrintable ==
    B(" !\"#$%&'()*+,-./0123456789:;<=>?@ABCDEFGHIJKLMNOPQRSTUVWXYZ[\\]^_")
    \o <<"<60>">> \o B("abcdefghijklmnopqrstuvwxyz{|}~")

hexDigits == B("0123456789ABCDEF")

IndexOf(s, c) == IF \E i \in 1..Len(s) : s[i] = c
                 THEN CHOOSE i \in 1..Len(s) : s[i] = c /\ \A j \in 1..(i - 1) : s[j] # c
                 ELSE 0

asciiCode == [c \in Range(asciiPrintable) |-> 31 + IndexOf(asciiPrintable, c)]

\* the value of a byte: a printable ASCII byte by its place in the table, the
\* line feed, and the others by their two hexadecimal digits
ByteCode(c) ==
    IF c = "\n" THEN 10
    ELSE IF c \in DOMAIN asciiCode THEN asciiCode[c]
    ELSE 16 * (IndexOf(hexDigits, SubSeq(c, 2, 2)) - 1)
         + (IndexOf(hexDigits, SubSeq(c, 3, 3)) - 1)

ByteOf(n) ==
    IF n = 10 THEN "\n"
    ELSE IF n >= 32 /\ n < 127 THEN asciiPrintable[n - 31]
    ELSE "<" \o hexDigits[(n \div 16) + 1] \o hexDigits[(n % 16) + 1] \o ">"

unreserved ==
    Range(B("abcdefghijklmnopqrstuvwxyzABCDEFGHIJKLMNOPQRSTUVWXYZ0123456789-_.~"))

isHex(c) == c \in Range(B("0123456789abcdefABCDEF"))

unhex(c) == IF c \in Range(hexDigits) THEN IndexOf(hexDigits, c) - 1
            ELSE 9 + IndexOf(B("abcdef"), c)

RECURSIVE QueryEscape(_)
\* url.QueryEscape: unreserved bytes as they are, a space as "+", every other
\* byte as "%XX"
QueryEscape(s) ==
    IF s = <<>> THEN <<>>
    ELSE LET c == Head(s)
             n == ByteCode(c)
         IN  (IF c \in unreserved THEN <<c>>
              ELSE IF c = " " THEN <<"+">>
              ELSE <<"%", hexDigits[(n \div 16) + 1], hexDigits[(n % 16) + 1]>>)
             \o QueryEscape(Tail(s))

\* a "%" that two hexadecimal digits do not follow
BadEscape(s) ==
    \E i \in 1..Len(s) :
        /\ s[i] = "%"
        /\ ~(i + 2 <= Len(s) /\ isHex(s[i + 1]) /\ isHex(s[i + 2]))

RECURSIVE unescapeFrom(_, _)
unescapeFrom(s, i) ==
    IF i > Len(s) THEN <<>>
    ELSE IF s[i] = "%"
        THEN <<ByteOf(16 * unhex(s[i + 1]) + unhex(s[i + 2]))>> \o unescapeFrom(s, i + 3)
    ELSE IF s[i] = "+" THEN <<" ">> \o unescapeFrom(s, i + 1)
    ELSE <<s[i]>> \o unescapeFrom(s, i + 1)

\* url.QueryUnescape, for a string without a bad escape
QueryUnescape(s) == unescapeFrom(s, 1)

RECURSIVE Split(_, _)
\* strings.Split(s, sep) for a one-byte separator
Split(s, sep) ==
    LET i == IndexOf(s, sep)
    IN  IF i = 0 THEN <<s>>
        ELSE <<SubSeq(s, 1, i - 1)>> \o Split(SubSeq(s, i + 1, Len(s)), sep)

\* strings.Cut(s, sep)
Cut(s, sep) ==
    LET i == IndexOf(s, sep)
    IN  IF i = 0 THEN <<s, <<>>>>
        ELSE <<SubSeq(s, 1, i - 1), SubSeq(s, i + 1, Len(s))>>

RECURSIVE parsePairs(_, _)
\* the loop of url.ParseQuery: the <<name, value>> pairs in their order; an
\* empty pair, a pair with a semicolon and a pair with a bad escape are dropped
\* (URL.Query discards the error)
parsePairs(segments, i) ==
    IF i > Len(segments) THEN <<>>
    ELSE LET seg == segments[i]
             kv  == Cut(seg, "=")
         IN  (IF seg = <<>> \/ IndexOf(seg, ";") # 0 \/ BadEscape(seg) THEN <<>>
              ELSE << <<QueryUnescape(kv[1]), QueryUnescape(kv[2])>> >>)
             \o parsePairs(segments, i + 1)

ParseQuery(query) == parsePairs(Split(query, "&"), 1)

RECURSIVE valuesNamed(_, _, _)
valuesNamed(pairs, name, i) ==
    IF i > Len(pairs) THEN <<>>
    ELSE (IF pairs[i][1] = name THEN <<pairs[i][2]>> ELSE <<>>)
         \o valuesNamed(pairs, name, i + 1)

\* URL.Query: url.Values, a function from each name to the list of its values
Query(rawQuery) ==
    LET pairs == ParseQuery(rawQuery)
    IN  [name \in {pairs[i][1] : i \in 1..Len(pairs)} |-> valuesNamed(pairs, name, 1)]

RECURSIVE LessBytes(_, _)
\* the order of Go strings: byte by byte
LessBytes(a, b) ==
    IF b = <<>> THEN FALSE
    ELSE IF a = <<>> THEN TRUE
    ELSE IF Head(a) = Head(b) THEN LessBytes(Tail(a), Tail(b))
    ELSE ByteCode(Head(a)) < ByteCode(Head(b))

RECURSIVE SortedKeys(_)
SortedKeys(S) ==
    IF S = {} THEN <<>>
    ELSE LET least == CHOOSE k \in S : \A other \in S \ {k} : LessBytes(k, other)
         IN  <<least>> \o SortedKeys(S \ {least})

RECURSIVE encodeValues(_, _, _)
encodeValues(key, vals, i) ==
    IF i > Len(vals) THEN <<>>
    ELSE <<QueryEscape(key) \o <<"=">> \o QueryEscape(vals[i])>>
         \o encodeValues(key, vals, i + 1)

RECURSIVE encodeKeys(_, _, _)
encodeKeys(v, keys, i) ==
    IF i > Len(keys) THEN <<>>
    ELSE encodeValues(keys[i], v[keys[i]], 1) \o encodeKeys(v, keys, i + 1)

RECURSIVE Join(_, _)
Join(parts, sep) ==
    IF parts = <<>> THEN <<>>
    ELSE IF Len(parts) = 1 THEN parts[1]
    ELSE parts[1] \o sep \o Join(Tail(parts), sep)

\* Values.Encode: "name=value" for every value, sorted by name, joined by "&"
Encode(v) == Join(encodeKeys(v, SortedKeys(DOMAIN v), 1), <<"&">>)

Count(s, c) == Cardinality({i \in 1..Len(s) : s[i] = c})

\* url.Parse: [err, prefix (scheme, host and path), RawQuery, ForceQuery].
\* It fails on a bad escape in the path; the query is not looked at.
Parse(raw) ==
    LET force == Len(raw) > 0 /\ raw[Len(raw)] = "?" /\ Count(raw, "?") = 1
        parts == IF force THEN <<SubSeq(raw, 1, Len(raw) - 1), <<>>>> ELSE Cut(raw, "?")
    IN  [err |-> BadEscape(parts[1]), prefix |-> parts[1],
         RawQuery |-> parts[2], ForceQuery |-> force]

\* URL.String
String(u) ==
    u.prefix \o (IF u.ForceQuery \/ u.RawQuery # <<>> THEN <<"?">> \o u.RawQuery ELSE <<>>)

(***************************************************************************)
(* RedactURLQuery                                                          *)
(***************************************************************************)

RECURSIVE containsFoldFrom(_, _, _)
containsFoldFrom(list, s, i) ==
    IF i > Len(list) THEN FALSE
    ELSE IF EqualFold(list[i], s) THEN TRUE
    ELSE containsFoldFrom(list, s, i + 1)

containsFold(list, s) == containsFoldFrom(list, s, 1)

\* Values.Get is the first value of the name; Values.Set leaves one value.
RedactURLQuery(raw, extraSensitiveKeys) ==
    LET u == Parse(raw)
        q == Query(u.RawQuery)
        redacted ==
            [key \in DOMAIN q |->
                IF IsSensitiveKey(key) \/ containsFold(extraSensitiveKeys, key)
                    THEN <<RedactionMask>>
                ELSE <<TruncatePreview(IF q[key] = <<>> THEN <<>> ELSE q[key][1])>>]
    IN  IF u.err THEN raw
        ELSE String([u EXCEPT !.RawQuery = Encode(redacted)])

(***************************************************************************)
(* unicode/utf8 and encoding/json, as RedactJSONBytes uses them: Unmarshal *)
(* into an any and Marshal of the result.  Numbers are the non-negative    *)
(* integers a float64 holds exactly; fractions, exponents and surrogate    *)
(* pairs are not among the inputs.                                         *)
(***************************************************************************)

isCont(s, i, lo, hi) == i <= Len(s) /\ ByteCode(s[i]) >= lo /\ ByteCode(s[i]) <= hi

\* the size of the character whose first byte s[i] has the value c
runeSizeAt(s, i, c) ==
    IF c < 128 THEN 1
    ELSE IF c >= 194 /\ c <= 223
        THEN IF isCont(s, i + 1, 128, 191) THEN 2 ELSE 0
    ELSE IF c >= 224 /\ c <= 239
        THEN IF /\ isCont(s, i + 1, IF c = 224 THEN 160 ELSE 128,
                                    IF c = 237 THEN 159 ELSE 191)
                /\ isCont(s, i + 2, 128, 191)
             THEN 3 ELSE 0
    ELSE IF c >= 240 /\ c <= 244
        THEN IF /\ isCont(s, i + 1, IF c = 240 THEN 144 ELSE 128,
                                    IF c = 244 THEN 143 ELSE 191)
                /\ isCont(s, i + 2, 128, 191)
                /\ isCont(s, i + 3, 128, 191)
             THEN 4 ELSE 0
    ELSE 0

\* utf8.DecodeRune at s[i]: the number of bytes of a well-formed character,
\* or 0 for a byte that starts none (RuneError, size 1)
RuneSize(s, i) == runeSizeAt(s, i, ByteCode(s[i]))

\* U+FFFD, the replacement character
runeError == <<"<EF>", "<BF>", "<BD>">>

\* utf8.AppendRune for a code point of the basic plane; a surrogate is
\* replaced by U+FFFD
EncodeRune(n) ==
    IF n < 128 THEN <<ByteOf(n)>>
    ELSE IF n < 2048 THEN <<ByteOf(192 + (n \div 64)), ByteOf(128 + (n % 64))>>
    ELSE IF n >= 55296 /\ n <= 57343 THEN runeError
    ELSE <<ByteOf(224 + (n \div 4096)), ByteOf(128 + ((n \div 64) % 64)),
           ByteOf(128 + (n % 64))>>

lowerHex == B("0123456789abcdef")

\* the escape \u00XX of an ASCII byte
unicodeEscape(n) ==
    <<"\\", "u", "0", "0", lowerHex[(n \div 16) + 1], lowerHex[(n % 16) + 1]>>

RECURSIVE appendString(_, _)
RECURSIVE appendRune(_, _, _, _, _)
\* the string encoder of json.Marshal from s[i] on: quote, backslash, control
\* bytes and the HTML characters are escaped, a byte that is not UTF-8 becomes
\* the escape of U+FFFD, U+2028 and U+2029 are escaped, everything else is
\* copied
appendString(s, i) ==
    IF i > Len(s) THEN <<>> ELSE appendRune(s, i, s[i], ByteCode(s[i]), RuneSize(s, i))

\* the character at s[i], of first byte c with value n and of size bytes,
\* and the rest of the string
appendRune(s, i, c, n, size) ==
    IF n < 128
        THEN (IF c = "\"" \/ c = "\\" THEN <<"\\", c>>
              ELSE IF c = "\n" THEN <<"\\", "n">>
              ELSE IF c = "<0D>" THEN <<"\\", "r">>
              ELSE IF c = "<09>" THEN <<"\\", "t">>
              ELSE IF n < 32 \/ c \in {"<", ">", "&"} THEN unicodeEscape(n)
              ELSE <<c>>)
             \o appendString(s, i + 1)
    ELSE IF size = 0 THEN B("\\ufffd") \o appendString(s, i + 1)
    ELSE IF size = 3 /\ SubSeq(s, i, i + 2) = <<"<E2>", "<80>", "<A8>">>
        THEN B("\\u2028") \o appendString(s, i + 3)
    ELSE IF size = 3 /\ SubSeq(s, i, i + 2) = <<"<E2>", "<80>", "<A9>">>
        THEN B("\\u2029") \o appendString(s, i + 3)
    ELSE SubSeq(s, i, i + size - 1) \o appendString(s, i + size)

\* An encoder that writes the bytes of a string between quotes as they are.
quotedRaw(s) == <<"\"">> \o s \o <<"\"">>

quoted(s) == <<"\"">> \o appendString(s, 1) \o <<"\"">>

RECURSIVE Itoa(_)
\* strconv of a non-negative integer
Itoa(n) == IF n < 10 THEN <<ByteOf(48 + n)>> ELSE Itoa(n \div 10) \o <<ByteOf(48 + (n % 10))>>

RECURSIVE Marshal(_)
RECURSIVE marshalElements(_, _)
RECURSIVE marshalMembers(_, _, _)

marshalElements(a, i) ==
    IF i > Len(a) THEN <<>>
    ELSE (IF i > 1 THEN <<",">> ELSE <<>>) \o Marshal(a[i]) \o marshalElements(a, i + 1)

marshalMembers(m, keys, i) ==
    IF i > Len(keys) THEN <<>>
    ELSE (IF i > 1 THEN <<",">> ELSE <<>>) \o quoted(keys[i]) \o <<":">>
         \o Marshal(m[keys[i]]) \o marshalMembers(m, keys, i + 1)

\* json.Marshal of a decoded tree: objects with their keys sorted, no white
\* space
Marshal(v) ==
    IF v[1] = "map[string]any"
        THEN <<"{">> \o marshalMembers(v[2], SortedKeys(DOMAIN v[2]), 1) \o <<"}">>
    ELSE IF v[1] = "[]any" THEN <<"[">> \o marshalElements(v[2], 1) \o <<"]">>
    ELSE IF v[1] = "string" THEN quoted(v[2])
    ELSE IF v[1] = "float64" THEN Itoa(v[2])
    ELSE IF v[1] = "bool" THEN (IF v[2] THEN B("true") ELSE B("false"))
    ELSE B("null")

parseError == [ok |-> FALSE, val |-> <<"nil">>, next |-> 0]

parsed(v, n) == [ok |-> TRUE, val |-> v, next |-> n]

whiteSpace == {" ", "\n", "<09>", "<0D>"}

RECURSIVE skipSpace(_, _)
skipSpace(s, i) ==
    IF i <= Len(s) /\ s[i] \in whiteSpace THEN skipSpace(s, i + 1) ELSE i

isDigit(c) == c \in Range(B("0123456789"))

simpleEscapes ==
    [c \in {"\"", "\\", "/", "b", "f", "n", "r", "t"} |->
        IF c = "b" THEN "<08>" ELSE IF c = "f" THEN "<0C>" ELSE IF c = "n" THEN "\n"
        ELSE IF c = "r" THEN "<0D>" ELSE IF c = "t" THEN "<09>" ELSE c]

hex4(s, i) ==
    4096 * unhex(s[i]) + 256 * unhex(s[i + 1]) + 16 * unhex(s[i + 2]) + unhex(s[i + 3])

prepend(bytes, r) == IF r.ok THEN [r EXCEPT !.val = bytes \o @] ELSE r

RECURSIVE stringFrom(_, _)
RECURSIVE runeFrom(_, _, _)
\* the string that starts after an opening quote at s[i - 1]: the decoded
\* bytes and the index after the closing quote; raw bytes that are not UTF-8
\* are replaced by U+FFFD
stringFrom(s, i) ==
    IF i > Len(s) THEN parseError
    ELSE IF s[i] = "\"" THEN parsed(<<>>, i + 1)
    ELSE IF s[i] = "\\"
        THEN IF i + 1 > Len(s) THEN parseError
             ELSE IF s[i + 1] = "u"
                 THEN IF i + 5 <= Len(s) /\ \A d \in 2..5 : isHex(s[i + d])
                      THEN prepend(EncodeRune(hex4(s, i + 2)), stringFrom(s, i + 6))
                      ELSE parseError
             ELSE IF s[i + 1] \in DOMAIN simpleEscapes
                 THEN prepend(<<simpleEscapes[s[i + 1]]>>, stringFrom(s, i + 2))
             ELSE parseError
    ELSE IF ByteCode(s[i]) < 32 THEN parseError
    ELSE runeFrom(s, i, RuneSize(s, i))

\* the raw character of size bytes at s[i], and the rest of the string
runeFrom(s, i, size) ==
    IF size = 0 THEN prepend(runeError, stringFrom(s, i + 1))
    ELSE prepend(SubSeq(s, i, i + size - 1), stringFrom(s, i + size))

RECURSIVE digitsEnd(_, _)
digitsEnd(s, i) == IF i <= Len(s) /\ isDigit(s[i]) THEN digitsEnd(s, i + 1) ELSE i

RECURSIVE Atoi(_)
Atoi(d) == IF d = <<>> THEN 0 ELSE 10 * Atoi(SubSeq(d, 1, Len(d) - 1)) + (ByteCode(d[Len(d)]) - 48)

hasLiteral(s, i, lit) ==
    i + Len(lit) - 1 <= Len(s) /\ SubSeq(s, i, i + Len(lit) - 1) = lit

RECURSIVE lastValue(_, _, _)
\* the value of the last member named key: a repeated key overwrites
lastValue(members, key, i) ==
    IF members[i][1] = key THEN members[i][2] ELSE lastValue(members, key, i - 1)

objectOf(members) ==
    <<"map[string]any",
      [k \in {members[i][1] : i \in 1..Len(members)} |-> lastValue(members, k, Len(members))]>>

RECURSIVE parseValue(_, _)
RECURSIVE parseElements(_, _, _)
RECURSIVE parseMembers(_, _, _)

\* after the elements read and the value e, at s[j]: a comma, the closing
\* bracket or an error
elementSeparator(s, elements, e, j) ==
    IF ~e.ok \/ j > Len(s) THEN parseError
    ELSE IF s[j] = "," THEN parseElements(s, j + 1, elements)
    ELSE IF s[j] = "]" THEN parsed(<<"[]any", elements>>, j + 1)
    ELSE parseError

elementAfter(s, acc, e) ==
    elementSeparator(s, Append(acc, e.val), e, skipSpace(s, e.next))

\* the elements of an array after "[" or ",": acc holds the elements read
parseElements(s, i, acc) == elementAfter(s, acc, parseValue(s, skipSpace(s, i)))

\* the key of a member: a string at s[k]
stringAt(s, k) ==
    IF k <= Len(s) /\ s[k] = "\"" THEN stringFrom(s, k + 1) ELSE parseError

\* the value of a member after its key and the colon at s[colon]
valueAfterColon(s, key, colon) ==
    IF key.ok /\ colon <= Len(s) /\ s[colon] = ":"
    THEN parseValue(s, skipSpace(s, colon + 1)) ELSE parseError

\* after the members read and the value v, at s[j]: a comma, the closing
\* brace or an error
memberSeparator(s, members, v, j) ==
    IF ~v.ok \/ j > Len(s) THEN parseError
    ELSE IF s[j] = "," THEN parseMembers(s, j + 1, members)
    ELSE IF s[j] = "}" THEN parsed(objectOf(members), j + 1)
    ELSE parseError

memberAfter(s, acc, key, v) ==
    memberSeparator(s, Append(acc, <<key.val, v.val>>), v, skipSpace(s, v.next))

memberValue(s, acc, key) ==
    memberAfter(s, acc, key, valueAfterColon(s, key, skipSpace(s, key.next)))

\* the members of an object after "{" or ",": acc holds the members read
parseMembers(s, i, acc) == memberValue(s, acc, stringAt(s, skipSpace(s, i)))

\* the string value read as r
stringValue(r) == IF r.ok THEN parsed(<<"string", r.val>>, r.next) ELSE parseError

\* one JSON value at s[i]
parseValue(s, i) ==
    IF i > Len(s) THEN parseError
    ELSE IF s[i] = "{"
        THEN LET j == skipSpace(s, i + 1)
             IN  IF j <= Len(s) /\ s[j] = "}"
                 THEN parsed(<<"map[string]any", <<>>>>, j + 1)
                 ELSE parseMembers(s, i + 1, <<>>)
    ELSE IF s[i] = "["
        THEN LET j == skipSpace(s, i + 1)
             IN  IF j <= Len(s) /\ s[j] = "]"
                 THEN parsed(<<"[]any", <<>>>>, j + 1)
                 ELSE parseElements(s, i + 1, <<>>)
    ELSE IF s[i] = "\""
        THEN stringValue(stringFrom(s, i + 1))
    ELSE IF isDigit(s[i])
        THEN LET e == digitsEnd(s, i)
             IN  IF s[i] = "0" /\ e > i + 1 THEN parseError
                 ELSE parsed(<<"float64", Atoi(SubSeq(s, i, e - 1))>>, e)
    ELSE IF hasLiteral(s, i, B("true")) THEN parsed(<<"bool", TRUE>>, i + 4)
    ELSE IF hasLiteral(s, i, B("false")) THEN parsed(<<"bool", FALSE>>, i + 5)
    ELSE IF hasLiteral(s, i, B("null")) THEN parsed(<<"nil">>, i + 4)
    ELSE parseError

\* the result of the decoder that read r from b: an error unless only white
\* space follows the value
decoded(b, r) ==
    IF r.ok /\ skipSpace(b, r.next) = Len(b) + 1
    THEN [err |-> FALSE, m |-> r.val]
    ELSE [err |-> TRUE, m |-> <<"nil">>]

\* json.Unmarshal(b, &m) for m of type any: one value, white space around it
\* and nothing else
Unmarshal(b) == decoded(b, parseValue(b, skipSpace(b, 1)))

(***************************************************************************)
(* RedactJSONBytes                                                         *)
(***************************************************************************)

RECURSIVE redactJSONNodeKeepSensitive(_)
\* A walker that previews the value of a sensitive key instead of masking it.
redactJSONNodeKeepSensitive(v) ==
    IF v[1] = "map[string]any"
        THEN <<"map[string]any", [k \in DOMAIN v[2] |-> redactJSONNodeKeepSensitive(v[2][k])]>>
    ELSE IF v[1] = "[]any"
        THEN <<"[]any", [i \in 1..Len(v[2]) |-> redactJSONNodeKeepSensitive(v[2][i])]>>
    ELSE IF v[1] = "string" THEN <<"string", TruncatePreview(v[2])>>
    ELSE v

RECURSIVE redactJSONNode(_)
redactJSONNode(v) ==
    IF v[1] = "map[string]any"
        THEN <<"map[string]any",
               [k \in DOMAIN v[2] |->
                   IF IsSensitiveKey(k) THEN <<"string", RedactionMask>>
                   ELSE redactJSONNode(v[2][k])]>>
    ELSE IF v[1] = "[]any"
        THEN <<"[]any", [i \in 1..Len(v[2]) |-> redactJSONNode(v[2][i])]>>
    ELSE IF v[1] = "string" THEN <<"string", TruncatePreview(v[2])>>
    ELSE v

\* An adapter that answers a parse error with an empty buffer.
redactDecodedOrEmpty(b, r) == IF r.err THEN <<>> ELSE Marshal(redactJSONNode(r.m))

\* b as it is when it is no JSON document, else the walked tree encoded;
\* Marshal of a tree of maps, slices, strings, numbers, booleans and nil does
\* not fail.
redactDecoded(b, r) == IF r.err THEN b ELSE Marshal(redactJSONNode(r.m))

RedactJSONBytes(b) == redactDecoded(b, Unmarshal(b))

(***************************************************************************)
(* RedactPEM: pemBlockRx is                                                *)
(*   -----BEGIN [^-]+-----[\s\S]+?-----END [^-]+-----                      *)
(* and regexp matches leftmost-first: at the first index a match starts,   *)
(* the labels take every byte up to the next dash and the lazy [\s\S]+?    *)
(* takes the fewest bytes the rest of the pattern allows.                  *)
(***************************************************************************)

beginArmor == B("-----BEGIN ")

endArmor == B("-----END ")

fiveDashes == B("-----")

RECURSIVE labelEnd(_, _)
\* [^-]+ from s[j]: the index of the first dash at or after j
labelEnd(s, j) == IF j <= Len(s) /\ s[j] # "-" THEN labelEnd(s, j + 1) ELSE j

\* <armor><label>----- at s[i]: the index after it, or 0
armorEnd(s, i, armor) ==
    LET j == i + Len(armor)
        e == labelEnd(s, j)
    IN  IF hasLiteral(s, i, armor) /\ e > j /\ hasLiteral(s, e, fiveDashes)
        THEN e + Len(fiveDashes) ELSE 0

RECURSIVE firstEndArmor(_, _)
\* the lazy content: the first index from p on where the END line matches
firstEndArmor(s, p) ==
    IF p > Len(s) THEN 0
    ELSE IF armorEnd(s, p, endArmor) # 0 THEN armorEnd(s, p, endArmor)
    ELSE firstEndArmor(s, p + 1)

\* the later match when there is one
laterOr(later, here) == IF later # 0 THEN later ELSE here

RECURSIVE lastEndArmor(_, _)
\* a greedy content: the last index where the END line matches
lastEndArmor(s, p) ==
    IF p > Len(s) THEN 0 ELSE laterOr(lastEndArmor(s, p + 1), armorEnd(s, p, endArmor))

\* A pattern whose content is greedy, [\s\S]+ for [\s\S]+?.
pemMatchGreedy(s, i) ==
    LET c == armorEnd(s, i, beginArmor)
    IN  IF c = 0 THEN 0 ELSE lastEndArmor(s, c + 1)

\* the match of pemBlockRx that starts at s[i]: the index after it, or 0
pemMatch(s, i) ==
    LET c == armorEnd(s, i, beginArmor)
    IN  IF c = 0 THEN 0 ELSE firstEndArmor(s, c + 1)

RECURSIVE replaceAllFrom(_, _)
\* ReplaceAllString(s, RedactionMask) from s[i] on
replaceAllFrom(s, i) ==
    IF i > Len(s) THEN <<>>
    ELSE IF pemMatch(s, i) # 0 THEN RedactionMask \o replaceAllFrom(s, pemMatch(s, i))
    ELSE <<s[i]>> \o replaceAllFrom(s, i + 1)

RedactPEM(s) == replaceAllFrom(s, 1)

(***************************************************************************)
(* RedactBytesChain                                                        *)
(***************************************************************************)

\* A chain that looks for the two literals in the raw body.
\* the scan of the redacted text for the two markers
collapseMarked(redacted) ==
    LET lower == ToLower(redacted)
    IN  IF Contains(lower, B("authorization:")) \/ Contains(lower, B("bearer "))
        THEN RedactionMask ELSE redacted

RedactBytesChainScanRaw(body) ==
    LET redacted == RedactPEM(RedactJSONBytes(body))
        lower == ToLower(body)
    IN  IF Contains(lower, B("authorization:")) \/ Contains(lower, B("bearer "))
        THEN RedactionMask ELSE redacted

RedactBytesChain(body) == collapseMarked(RedactPEM(RedactJSONBytes(body)))

(***************************************************************************)
(* SafeKVString.  A range over a Go map visits the entries in an order     *)
(* that is not specified and differs from one run of the loop to the next: *)
(* order is the order of one run.                                          *)
(***************************************************************************)

\* the orders in which a range can visit the keys S
Orders(S) ==
    { order \in [1..Cardinality(S) -> S] :
        \A i, j \in 1..Cardinality(S) : order[i] = order[j] => i = j }

\* the switch on the type of v: a string as it is, anything else encoded
kvValue(v) == IF v[1] = "string" THEN v[2] ELSE Marshal(v)

kvPairs(safe, order) ==
    [i \in 1..Len(order) |-> order[i] \o <<"=">> \o kvValue(safe[order[i]])]

\* SafeKVString(fields) when the range visits SafeFields(fields) in order
SafeKVString(fields, order) == Join(kvPairs(SafeFields(fields), order), <<" ">>)

(***************************************************************************)
(* The adapters on the heap: what each one allocates and where it writes.  *)
(* A step returns [h, v]: the heap after it and its value.  A range over a *)
(* map visits the keys in their sorted order here; the order changes the   *)
(* addresses of the allocations and nothing else.                          *)
(***************************************************************************)

\* a new object
alloc(h, object) == [h |-> Append(h, object), v |-> <<"ref", Len(h) + 1>>]

\* m[k] = v on the map at address a
mapAssign(h, a, k, v) == [h EXCEPT ![a] = <<@[1], (k :> v) @@ @[2]>>]

\* t[i] = v on the slice at address a
indexAssign(h, a, i, v) == [h EXCEPT ![a] = <<@[1], [@[2] EXCEPT ![i] = v]>>]

isRefTo(h, v, type) == v[1] = "ref" /\ h[v[2]][1] = type

RECURSIVE store(_, _)
RECURSIVE storeMembers(_, _, _, _, _)
RECURSIVE storeElements(_, _, _, _)

storeMember(m, keys, i, acc, r) ==
    storeMembers(r.h, m, keys, i + 1, (keys[i] :> r.v) @@ acc)

storeMembers(h, m, keys, i, acc) ==
    IF i > Len(keys) THEN alloc(h, <<"map[string]any", acc>>)
    ELSE storeMember(m, keys, i, acc, store(h, m[keys[i]]))

storeElement(a, i, acc, r) == storeElements(r.h, a, i + 1, Append(acc, r.v))

storeElements(h, a, i, acc) ==
    IF i > Len(a) THEN alloc(h, <<"[]any", acc>>)
    ELSE storeElement(a, i, acc, store(h, a[i]))

\* the value v built on the heap h, as the caller of SafeFields or the JSON
\* decoder builds it: one object for every map and every slice
store(h, v) ==
    IF v[1] = "map[string]any" THEN storeMembers(h, v[2], SortedKeys(DOMAIN v[2]), 1, <<>>)
    ELSE IF v[1] = "[]any" THEN storeElements(h, v[2], 1, <<>>)
    ELSE IF v[1] = "map[string]string" THEN alloc(h, v)
    ELSE [h |-> h, v |-> v]

RECURSIVE load(_, _)
\* the value that v is on the heap h, its references followed
load(h, v) ==
    IF v[1] # "ref" THEN v
    ELSE IF h[v[2]][1] = "map[string]any"
        THEN <<"map[string]any", [k \in DOMAIN h[v[2]][2] |-> load(h, h[v[2]][2][k])]>>
    ELSE IF h[v[2]][1] = "[]any"
        THEN <<"[]any", [i \in 1..Len(h[v[2]][2]) |-> load(h, h[v[2]][2][i])]>>
    ELSE h[v[2]]

\* A SafeFields that takes the caller's map for its output.
reuseMap(h, in) == [h |-> h, v |-> <<"ref", in>>]

\* out := make(map[string]any, len(in))
makeMap(h, in) == alloc(h, <<"map[string]any", <<>>>>)

\* case map[string]string: tmp, a new map of the SafeValue of every entry
safeStringMapAt(h, t) ==
    alloc(h, <<"map[string]any",
               [kk \in DOMAIN h[t][2] |-> SafeValue(kk, <<"string", h[t][2][kk]>>)]>>)

RECURSIVE SafeFieldsAt(_, _)
RECURSIVE safeFieldsRange(_, _, _, _, _)

\* out[k] = the value of the step r, and the rest of the range
safeFieldsAssign(in, o, keys, i, r) ==
    safeFieldsRange(mapAssign(r.h, o, keys[i], r.v), in, o, keys, i + 1)

\* the switch on the type of v = in[k]
safeFieldsSwitch(h, k, v) ==
    IF isRefTo(h, v, "map[string]any") THEN SafeFieldsAt(h, v[2])
    ELSE IF isRefTo(h, v, "map[string]string") THEN safeStringMapAt(h, v[2])
    ELSE [h |-> h, v |-> SafeValue(k, v)]

\* for k, v := range in, from the i-th key on
safeFieldsRange(h, in, o, keys, i) ==
    IF i > Len(keys) THEN [h |-> h, v |-> <<"ref", o>>]
    ELSE safeFieldsAssign(in, o, keys, i, safeFieldsSwitch(h, keys[i], h[in][2][keys[i]]))

safeFieldsInto(in, r) == safeFieldsRange(r.h, in, r.v[2], SortedKeys(DOMAIN r.h[in][2]), 1)

\* SafeFields on the map at address in
SafeFieldsAt(h, in) == safeFieldsInto(in, makeMap(h, in))

\* the slice a header of name k and values vals gets: a new one of the mask,
\* or a new one of the previews
headerValuesAt(h, k, vals) ==
    IF IsSensitiveKey(k) \/ EqualFold(k, B("Authorization")) \/ EqualFold(k, B("Cookie"))
    THEN alloc(h, <<"[]string", <<RedactionMask>>>>)
    ELSE alloc(h, <<"[]string", [i \in 1..Len(vals) |-> TruncatePreview(vals[i])]>>)

RECURSIVE redactHeadersRange(_, _, _, _, _)

redactHeadersAssign(hdr, safe, keys, i, r) ==
    redactHeadersRange(mapAssign(r.h, safe, keys[i], r.v), hdr, safe, keys, i + 1)

\* for k, vals := range h, from the i-th name on
redactHeadersRange(h, hdr, safe, keys, i) ==
    IF i > Len(keys) THEN [h |-> h, v |-> <<"ref", safe>>]
    ELSE redactHeadersAssign(hdr, safe, keys, i,
                             headerValuesAt(h, keys[i], h[h[hdr][2][keys[i]][2]][2]))

redactHeadersInto(hdr, r) ==
    redactHeadersRange(r.h, hdr, r.v[2], SortedKeys(DOMAIN r.h[hdr][2]), 1)

\* RedactHTTPHeaders on the header map at address hdr
RedactHTTPHeadersAt(h, hdr) == redactHeadersInto(hdr, alloc(h, <<"http.Header", <<>>>>))

RECURSIVE redactJSONNodeAt(_, _)
RECURSIVE redactMembersRange(_, _, _, _, _)
RECURSIVE redactElementsRange(_, _, _)

redactMemberAssign(t, o, keys, i, r) ==
    redactMembersRange(mapAssign(r.h, o, keys[i], r.v), t, o, keys, i + 1)

\* for k, vv := range t, from the i-th key on
redactMembersRange(h, t, o, keys, i) ==
    IF i > Len(keys) THEN [h |-> h, v |-> <<"ref", o>>]
    ELSE IF IsSensitiveKey(keys[i])
        THEN redactMemberAssign(t, o, keys, i, [h |-> h, v |-> <<"string", RedactionMask>>])
    ELSE redactMemberAssign(t, o, keys, i, redactJSONNodeAt(h, h[t][2][keys[i]]))

redactMembersInto(t, r) ==
    redactMembersRange(r.h, t, r.v[2], SortedKeys(DOMAIN r.h[t][2]), 1)

\* t[i] = the value of the step r, and the rest of the range
redactElementAssign(t, i, r) ==
    redactElementsRange(indexAssign(r.h, t, i, r.v), t, i + 1)

\* for i := range t, from index i on: the slice is written in place
redactElementsRange(h, t, i) ==
    IF i > Len(h[t][2]) THEN [h |-> h, v |-> <<"ref", t>>]
    ELSE redactElementAssign(t, i, redactJSONNodeAt(h, h[t][2][i]))

\* redactJSONNode on the value v of the decoded tree
redactJSONNodeAt(h, v) ==
    IF isRefTo(h, v, "map[string]any")
        THEN redactMembersInto(v[2], alloc(h, <<"map[string]any", <<>>>>))
    ELSE IF isRefTo(h, v, "[]any") THEN redactElementsRange(h, v[2], 1)
    ELSE IF v[1] = "string" THEN [h |-> h, v |-> <<"string", TruncatePreview(v[2])>>]
    ELSE [h |-> h, v |-> v]

\* out, err := json.Marshal(redacted): a new buffer
marshalAt(r) == alloc(r.h, <<"[]byte", Marshal(load(r.h, r.v))>>)

\* the decoded tree m, walked and encoded
redactTreeAt(r) == marshalAt(redactJSONNodeAt(r.h, r.v))

redactDecodedAt(h, b, r) ==
    IF r.err THEN [h |-> h, v |-> <<"ref", b>>] ELSE redactTreeAt(store(h, r.m))

\* RedactJSONBytes on the buffer at address b: b itself when it is no JSON
RedactJSONBytesAt(h, b) == redactDecodedAt(h, b, Unmarshal(h[b][2]))

(***************************************************************************)
(* Inputs                                                                  *)
(***************************************************************************)

\* Bounds of the input strings: up to MaxHead ASCII bytes, one character of
\* one to four bytes (or none), up to MaxTail ASCII bytes.
MaxHead == 9

MaxTail == 13

headLetters == B("abcdefghijlmnoqrsuwxz")

tailLetters == B("0123456789ABCDFGHIJLMNOQ")

Cycle(letters, n) == [i \in 1..n |-> letters[((i - 1) % Len(letters)) + 1]]

\* U+00E9, U+2026 and U+1F600 in UTF-8, the empty string and one ASCII byte
midCharacters ==
    { <<>>, <<"_">>, <<"<C3>", "<A9>">>, <<"<E2>", "<80>", "<A6>">>,
      <<"<F0>", "<9F>", "<98>", "<80>">> }

Texts ==
    { Cycle(headLetters, n) \o mid \o Cycle(tailLetters, m) :
        n \in 0..MaxHead, mid \in midCharacters, m \in 0..MaxTail }

\* Field, header and query parameter names.
Names ==
    { B("ApiKeyValue"), B("my_private_note"), B("token"), B("TOKEN"),
      B("Authorization"), B("cookie"), B("Cookie"), B("X-Auth"), B("page"),
      B("name"), B("id"), B("Content-Type"), B("kEy"), B("ke"), B("note"),
      B("PassWord"), B("x-jwt-x"), B("User"), B("monkey"), B("ey"), B("") }

shortString == <<"string", B("ok")>>

longString == <<"string", B("abcdefghijklmnopqrstuvwxyz")>>

\* Values of every dynamic type SafeValue can be handed.
Scalars ==
    { shortString, longString, <<"string", B("hunter2")>>, <<"float64", 2>>,
      <<"int", 7>>, <<"bool", TRUE>>, <<"nil">> }

Values ==
    Scalars \cup
    { <<"map[string]any", [k \in {B("pin")} |-> <<"string", B("1234")>>]>>,
      <<"map[string]string", [k \in {B("pin")} |-> B("1234")]>>,
      <<"[]any", <<shortString, <<"float64", 2>>>>>>,
      <<"[]any", <<>>>> }

\* Nesting depth of the maps handed to SafeFields.
MaxDepth == 2

FieldKeys == { B("secret"), B("name"), B("ApiKey") }

OneKey(k, v) == [x \in {k} |-> v]

TwoKeys(k1, v1, k2, v2) == [x \in {k1, k2} |-> IF x = k1 THEN v1 ELSE v2]

\* Values without a map[string]any of their own: scalars, a map[string]string
\* and sequences, one of them holding a map.
FlatValues ==
    { shortString, longString, <<"float64", 2>>, <<"nil">>,
      <<"map[string]string",
        TwoKeys(B("password"), B("hunter2"), B("user"), B("abcdefghijklmnopqrstuvwxyz"))>>,
      <<"[]any", <<shortString>>>>,
      <<"[]any", << <<"map[string]any", OneKey(B("token"), <<"string", B("t0p")>>)>> >> >> }

RECURSIVE FieldValues(_)
FieldValues(d) ==
    IF d = 0 THEN FlatValues
    ELSE FlatValues \cup
         { <<"map[string]any", OneKey(k, v)>> : k \in FieldKeys, v \in FieldValues(d - 1) }

FieldMaps ==
    { OneKey(k, v) : k \in FieldKeys, v \in FieldValues(MaxDepth) }
    \cup { TwoKeys(B("secret"), v1, B("name"), v2) : v1, v2 \in FlatValues }
    \cup { <<>> }

\* Number of values of a header, and of parameters of a query.
MaxValues == 2

MaxParams == 2

RECURSIVE SeqsUpTo(_, _)
\* the sequences of at most n elements of S
SeqsUpTo(S, n) ==
    IF n = 0 THEN { <<>> }
    ELSE SeqsUpTo(S, n - 1)
         \cup { <<x>> \o t : x \in S, t \in { u \in SeqsUpTo(S, n - 1) : Len(u) = n - 1 } }

HeaderNames ==
    { B("Authorization"), B("authorization"), B("Cookie"), B("COOKIE"),
      B("Cookies"), B("Content-Type"), B("token"), B("X-Api-Key"), B("Accept") }

HeaderValues ==
    { B("application/json"), B("Bearer abcdefghijklmnop"), B("sid=0123456789abcdefXYZ") }

HeaderMaps ==
    { OneKey(k, vs) : k \in HeaderNames, vs \in SeqsUpTo(HeaderValues, MaxValues) }
    \cup { TwoKeys(B("Cookie"), vs, B("Accept"), ws) :
             vs, ws \in SeqsUpTo(HeaderValues, MaxValues) }
    \cup { <<>> }

urlPrefixes == { B("https://x/y"), B("/configurations/ns"), B("https://x/%zz") }

queryParams ==
    { B("token=abcdef123456"), B("page=2"), B("page=3"), B("Sig=0123456789abcdefXYZ"),
      B("q=abcdefghijklmnopqrstuvwxyz"), B("a%20b=c+d%2A"), B("flag") }

Queries ==
    { Join(ps, <<"&">>) : ps \in SeqsUpTo(queryParams, MaxParams) }

rawURLs ==
    { p \o <<"?">> \o q : p \in urlPrefixes, q \in Queries } \cup urlPrefixes

extraKeyLists == { <<>>, <<B("sig"), B("PAGE")>> }

\* Nesting depth of the JSON documents, and the number of calls made in a
\* row on one buffer.
MaxJSONDepth == 2

MaxCalls == 2

multiByteCharacters == { mid \in midCharacters : Len(mid) > 1 }

\* Short strings, and long ones with a character of one to four bytes where
\* the head or the tail of the preview is cut.
jsonStrings ==
    { B("ok"), B("Bearer xyz") }
    \cup { Cycle(headLetters, n) \o mid \o Cycle(tailLetters, 12) :
             n \in {5, 7}, mid \in midCharacters }
    \cup { Cycle(headLetters, 9) \o mid \o Cycle(tailLetters, m) :
             m \in {6, 7}, mid \in multiByteCharacters }

jsonLeaves ==
    { <<"string", t>> : t \in jsonStrings }
    \cup { <<"float64", 2>>, <<"bool", TRUE>>, <<"nil">> }

jsonKeys == { B("authorization"), B("note"), B("ApiKey") }

RECURSIVE Documents(_)
Documents(d) ==
    IF d = 0 THEN jsonLeaves
    ELSE jsonLeaves
         \cup { <<"map[string]any", OneKey(k, v)>> : k \in jsonKeys, v \in Documents(d - 1) }
         \cup { <<"[]any", <<v>>>> : v \in Documents(d - 1) }

\* Documents with two members and two elements.
wideDocuments ==
    { <<"map[string]any", TwoKeys(B("ApiKey"), v, B("note"), w)>> :
        v \in { <<"float64", 2>>, <<"[]any", <<shortString>>>> }, w \in jsonLeaves }
    \cup { <<"[]any", <<v, <<"map[string]any", OneKey(B("token"), v)>>>>>> : v \in jsonLeaves }

\* Documents written by hand: white space, a repeated key, escapes, an empty
\* object and an empty array.
writtenDocuments ==
    { B("{\"authorization\": \"Bearer xyz\"}"),
      B(" [1, {\"a\": 1, \"a\": \"x<y\"}, [], {}] "),
      B("{\"note\":\"caf\\u00e9 \\\"0123456789abcdef\\\"\\n\"}"),
      B("{\"note\":\"Bearer abc\"}"),
      B("[\"-----BEGIN A-----\",\"MIIB\",\"-----END A-----\"]") }

\* Documents without a sensitive key whose strings are short: escapes, a
\* character of two bytes, U+2028, a string of exactly maxPreviewLen bytes.
shortDocuments ==
    { B(" {\"note\": [\"caf\\u00e9\", \"a<b\\n\", true, 2, null], \"id\": {\"name\": \"\\u2028\"}} "),
      B("[\"a\\\"b\\\\c\", {\"x\": [[], {}, \"0123456789abcdef\"]}, 10]"),
      B("\"\\ud800 \\/\\t\""),
      B("{\"user\":\"") \o <<"<C3>", "<A9>">> \o B("&\",\"user\":\"bob\"}") }

jsonBodies ==
    { Marshal(d) : d \in Documents(MaxJSONDepth) \cup wideDocuments }
    \cup writtenDocuments \cup shortDocuments

\* Buffers that are no JSON document.
plainBodies ==
    { B("Authorization: Bearer abc"), B("plain text"), B("{\"a\":"), B("{\"a\":1}x"),
      B("01"), B("{'a':1}"), B("") }

\* Number of pieces a text handed to RedactPEM is made of.
MaxSegments == 3

\* A header line, a footer with another label, a whole block, prose, a header
\* without a label and a footer whose label holds a dash.
pemSegments ==
    { B("-----BEGIN CERT-----"), B("-----END X-----"),
      B("-----BEGIN EC KEY-----\nMIIB\n-----END EC KEY-----"), B("ab\n"),
      B("-----BEGIN -----"), B("-----END A-B-----") }

RECURSIVE Concat(_)
Concat(parts) == IF parts = <<>> THEN <<>> ELSE Head(parts) \o Concat(Tail(parts))

pemTexts == { Concat(ps) : ps \in SeqsUpTo(pemSegments, MaxSegments) }

chainSegments ==
    { B("-----BEGIN EC KEY-----\nMIIB\n-----END EC KEY-----"), B("AUTHORIZATION: x"),
      B("token Bearer abc"), B("ok "), B("{\"note\":\"ok\"}") }

chainBodies ==
    jsonBodies \cup plainBodies \cup { Concat(ps) : ps \in SeqsUpTo(chainSegments, 2) }

Call(f, a) == [fn |-> f, arg |-> a]

RedactPEMCalls == { Call("RedactPEM", t) : t \in pemTexts }

RedactBytesChainCalls == { Call("RedactBytesChain", b) : b \in chainBodies }

RedactJSONBytesCalls ==
    { Call("RedactJSONBytes", b) : b \in jsonBodies \cup plainBodies }

RedactHTTPHeadersCalls == { Call("RedactHTTPHeaders", h) : h \in HeaderMaps }

RedactURLQueryCalls ==
    { Call("RedactURLQuery", <<raw, extra>>) : raw \in rawURLs, extra \in extraKeyLists }

SafeFieldsCalls == { Call("SafeFields", m) : m \in FieldMaps }

TruncatePreviewCalls == { Call("TruncatePreview", s) : s \in Texts }

\* Flat field mappings of no, one, two and three fields.
kvMaps ==
    { OneKey(k, v) : k \in FieldKeys, v \in FlatValues }
    \cup { TwoKeys(B("secret"), v1, B("name"), v2) : v1, v2 \in FlatValues }
    \cup { <<>>,
           [k \in FieldKeys |-> IF k = B("name") THEN <<"bool", TRUE>> ELSE shortString] }

SafeKVStringCalls == { Call("SafeKVString", m) : m \in kvMaps }

SafeValueCalls ==
    { Call("SafeValue", <<k, v>>) : k \in Names, v \in Values }

AllCalls ==
    TruncatePreviewCalls \cup SafeValueCalls \cup SafeFieldsCalls
    \cup RedactHTTPHeadersCalls \cup RedactURLQueryCalls
    \cup RedactJSONBytesCalls \cup RedactPEMCalls \cup RedactBytesChainCalls
    \cup SafeKVStringCalls

\* no APIClient has been made
noClient == [baseURL |-> <<>>, token |-> <<>>, apiVersion |-> <<>>]

(***************************************************************************)
(* The calls                                                               *)
(***************************************************************************)

Init ==
    /\ \E c \in AllCalls : fn = c.fn /\ arg = c.arg
    /\ pc = "call"
    /\ out = <<>>
    /\ calls = 0
    /\ heap = <<>>
    /\ client = noClient
    /\ log = <<>>

Return(result) ==
    /\ out' = result
    /\ pc' = "done"
    /\ calls' = calls + 1
    /\ UNCHANGED <<fn, arg, heap, client, log>>

CallTruncatePreview ==
    /\ pc = "call" /\ fn = "TruncatePreview"
    /\ Return(TruncatePreview(arg))

CallSafeValue ==
    /\ pc = "call" /\ fn = "SafeValue"
    /\ Return(SafeValue(arg[1], arg[2]))

CallSafeFields ==
    /\ pc = "call" /\ fn = "SafeFields"
    /\ Return(SafeFields(arg))

CallRedactHTTPHeaders ==
    /\ pc = "call" /\ fn = "RedactHTTPHeaders"
    /\ Return(RedactHTTPHeaders(arg))

CallRedactURLQuery ==
    /\ pc = "call" /\ fn = "RedactURLQuery"
    /\ Return(RedactURLQuery(arg[1], arg[2]))

CallRedactJSONBytes ==
    /\ pc = "call" /\ fn = "RedactJSONBytes"
    /\ Return(RedactJSONBytes(arg))

\* The caller hands the buffer it got back to RedactJSONBytes once more.
CallRedactJSONBytesAgain ==
    /\ pc = "done" /\ fn = "RedactJSONBytes" /\ calls < MaxCalls
    /\ arg' = out
    /\ out' = RedactJSONBytes(out)
    /\ calls' = calls + 1
    /\ UNCHANGED <<pc, fn, heap, client, log>>

CallRedactPEM ==
    /\ pc = "call" /\ fn = "RedactPEM"
    /\ Return(RedactPEM(arg))

CallRedactBytesChain ==
    /\ pc = "call" /\ fn = "RedactBytesChain"
    /\ Return(RedactBytesChain(arg))

CallSafeKVString ==
    /\ pc = "call" /\ fn = "SafeKVString"
    /\ \E order \in Orders(DOMAIN arg) : Return(SafeKVString(arg, order))

\* The caller formats the same mapping once more.
CallSafeKVStringAgain ==
    /\ pc = "done" /\ fn = "SafeKVString" /\ calls < MaxCalls
    /\ \E order \in Orders(DOMAIN arg) : Return(SafeKVString(arg, order))

Next ==
    \/ CallTruncatePreview
    \/ CallSafeValue
    \/ CallSafeFields
    \/ CallRedactHTTPHeaders
    \/ CallRedactURLQuery
    \/ CallRedactJSONBytes
    \/ CallRedactJSONBytesAgain
    \/ CallRedactPEM
    \/ CallRedactBytesChain
    \/ CallSafeKVString
    \/ CallSafeKVStringAgain

Spec == Init /\ [][Next]_vars

(***************************************************************************)
(* The calls on the heap: the caller owns the objects of the heap when the *)
(* call is made, and the adapter allocates and writes.                     *)
(***************************************************************************)

\* a map with two fields that hold the same nested map
sharedMapHeap ==
    << <<"map[string]any", OneKey(B("token"), <<"string", B("t0p")>>)>>,
       <<"map[string]any", TwoKeys(B("name"), <<"ref", 1>>, B("id"), <<"ref", 1>>)>> >>

\* a header map on the heap: one slice for the values of every name, then
\* the map
headerHeap(m) ==
    LET keys == SortedKeys(DOMAIN m)
    IN  [i \in 1..Len(keys) |-> <<"[]string", m[keys[i]]>>]
        \o << <<"http.Header",
                [k \in DOMAIN m |-> <<"ref", CHOOSE i \in 1..Len(keys) : keys[i] = k>>]>> >>

HeapCall(f, a, h) == [fn |-> f, arg |-> a, heap |-> h]

storedCall(f, r) == HeapCall(f, r.v, r.h)

HeapCalls ==
    { storedCall("SafeFields", store(<<>>, <<"map[string]any", m>>)) : m \in FieldMaps }
    \cup { HeapCall("SafeFields", <<"ref", 2>>, sharedMapHeap) }
    \cup { HeapCall("RedactHTTPHeaders", <<"ref", Cardinality(DOMAIN m) + 1>>, headerHeap(m)) :
             m \in HeaderMaps }
    \cup { HeapCall("RedactJSONBytes", <<"ref", 1>>, << <<"[]byte", b>> >>) :
             b \in jsonBodies \cup plainBodies }
    \cup { HeapCall("RedactURLQuery", <<raw, <<"ref", 1>>>>, << <<"[]string", extra>> >>) :
             raw \in rawURLs, extra \in extraKeyLists }

HeapInit ==
    /\ \E c \in HeapCalls : fn = c.fn /\ arg = c.arg /\ heap = c.heap
    /\ pc = "call"
    /\ out = <<>>
    /\ calls = 0
    /\ client = noClient
    /\ log = <<>>

\* the call returns the value of the step r and leaves the heap of r
ReturnAt(r) ==
    /\ heap' = r.h
    /\ out' = r.v
    /\ pc' = "done"
    /\ calls' = calls + 1
    /\ UNCHANGED <<fn, arg, client, log>>

CallSafeFieldsAt ==
    /\ pc = "call" /\ fn = "SafeFields"
    /\ ReturnAt(SafeFieldsAt(heap, arg[2]))

CallRedactHTTPHeadersAt ==
    /\ pc = "call" /\ fn = "RedactHTTPHeaders"
    /\ ReturnAt(RedactHTTPHeadersAt(heap, arg[2]))

CallRedactJSONBytesAt ==
    /\ pc = "call" /\ fn = "RedactJSONBytes"
    /\ ReturnAt(RedactJSONBytesAt(heap, arg[2]))

\* A string is immutable and the variadic slice is only read.
CallRedactURLQueryAt ==
    /\ pc = "call" /\ fn = "RedactURLQuery"
    /\ ReturnAt([h |-> heap, v |-> <<"string", RedactURLQuery(arg[1], heap[arg[2][2]][2])>>])

HeapNext ==
    \/ CallSafeFieldsAt
    \/ CallRedactHTTPHeadersAt
    \/ CallRedactJSONBytesAt
    \/ CallRedactURLQueryAt

HeapSpec == HeapInit /\ [][HeapNext]_vars

(***************************************************************************)
(* The HTTP client (APIClient) and its log.  A log record is the sequence  *)
(* of the parts log.Printf writes: the literal pieces of the format and    *)
(* the arguments, each with where its data comes from (src) and the        *)
(* redaction adapter it went through (via, "none" for none).  The date     *)
(* log.Printf puts in front is left out.  The server is any of Responses.  *)
(* The text of an error of encoding/json or io is one fixed text.          *)
(***************************************************************************)

\* Number of calls made on one client.
MaxOps == 2

part(src, via, text) == [src |-> src, via |-> via, text |-> text]

literal(s) == part("literal", "none", B(s))

\* the line a record is written as
recordText(record) == Concat([i \in 1..Len(record) |-> record[i].text])

\* fmt.Sprintf("%s/%s/configurations/%s", c.baseURL, c.apiVersion, ns)
requestURL(c, ns) == c.baseURL \o <<"/">> \o c.apiVersion \o B("/configurations/") \o ns

\* log.Printf(format, utils.RedactURLQuery(url))
urlRecord(format, url) ==
    <<literal(format), part("url", "RedactURLQuery", RedactURLQuery(url, <<>>))>>

\* %v of a []string
formatValues(vals) == <<"[">> \o Join(vals, <<" ">>) \o <<"]">>

formatEntries(h, keys) ==
    [i \in 1..Len(keys) |-> keys[i] \o <<":">> \o formatValues(h[keys[i]])]

\* %v of an http.Header: fmt writes a map with its keys sorted
formatHeader(h) ==
    B("map[") \o Join(formatEntries(h, SortedKeys(DOMAIN h)), <<" ">>) \o <<"]">>

\* log.Printf(format, utils.RedactHTTPHeaders(header))
headersRecord(format, header) ==
    <<literal(format), part("headers", "RedactHTTPHeaders", formatHeader(RedactHTTPHeaders(header)))>>

\* req.Header.Set("token", c.token): the name is stored in its canonical form
tokenHeader(c) == OneKey(B("Token"), <<c.token>>)

\* and req.Header.Set("Content-Type", "application/json")
jsonHeaders(c) ==
    TwoKeys(B("Token"), <<c.token>>, B("Content-Type"), <<B("application/json")>>)

\* string(utils.RedactBytesChain(b))
bodyPart(b) == part("body", "RedactBytesChain", RedactBytesChain(b))

statusPart(status) == part("status", "none", Itoa(status))

statusRecord(status) == <<literal("[DEBUG] Response status: "), statusPart(status)>>

\* the error of c.hc.Do is a *url.Error: the method, the quoted URL of the
\* request and the cause
transportError(method, url) ==
    <<literal(method), literal(" \""), part("url", "none", url), literal("\": connection refused")>>

transportErrorRecord(method, url) ==
    <<literal("[ERROR] HTTP request failed: ")>> \o transportError(method, url)

min(a, b) == IF a < b THEN a ELSE b

\* UpsertSecret, "Additional debug for token format"
tokenRecord(c) ==
    IF Len(c.token) < 10
    THEN <<literal("[WARN] Token seems too short (length: "),
           part("token", "none", Itoa(Len(c.token))), literal("), may be invalid")>>
    ELSE <<literal("[DEBUG] Token length: "), part("token", "none", Itoa(Len(c.token))),
           literal(", preview: "),
           part("token", "none", SubSeq(c.token, 1, min(8, Len(c.token)))), literal("...")>>

\* json.Unmarshal(b, &configs) for a map: an object or null
decodesToMap(b) == ~Unmarshal(b).err /\ Unmarshal(b).m[1] \in {"map[string]any", "nil"}

\* the records GetSecret writes after the response
getResponseLog(resp) ==
    <<statusRecord(resp.status)>>
    \o (IF resp.status = 404 THEN <<>>
        ELSE IF resp.status >= 300
            THEN << <<literal("[ERROR] Get secret failed (status "), statusPart(resp.status),
                      literal("): "), bodyPart(resp.body)>> >>
        ELSE << <<literal("[DEBUG] Response body: "), bodyPart(resp.body)>> >>
             \o (IF decodesToMap(resp.body) THEN <<>>
                 ELSE << <<literal("[ERROR] Failed to decode JSON response: "),
                           part("error", "none", B("invalid JSON"))>> >>))

\* the records of one GetSecret(ns, key)
GetSecretLog(c, ns, resp) ==
    <<urlRecord("[DEBUG] GET request to: ", requestURL(c, ns) \o B("/latest/all")),
      headersRecord("[DEBUG] Request headers: ", tokenHeader(c))>>
    \o (IF resp.kind = "error"
        THEN <<transportErrorRecord("Get", requestURL(c, ns) \o B("/latest/all"))>>
        ELSE getResponseLog(resp))

\* the error GetSecret returns, <<>> for nil
GetSecretError(c, ns, resp) ==
    IF resp.kind = "error"
        THEN B("HTTP request failed: ")
             \o recordText(transportError("Get", requestURL(c, ns) \o B("/latest/all")))
    ELSE IF resp.status = 404 THEN <<>>
    ELSE IF resp.status >= 300
        THEN B("get secret failed (status ") \o Itoa(resp.status) \o B("): ") \o resp.body
    ELSE IF decodesToMap(resp.body) THEN <<>>
    ELSE B("failed to decode response: invalid JSON (body: ")
         \o RedactBytesChain(resp.body) \o B(")")

\* a map[string]string as json.Marshal writes it
stringMap(m) == <<"map[string]any", [k \in DOMAIN m |-> <<"string", m[k]>>]>>

\* UpsertSecret: body, _ := json.Marshal(payload)
upsertBody(p) ==
    Marshal(<<"map[string]any",
              IF DOMAIN p.Tags = {}
              THEN OneKey(B("configs"), stringMap(OneKey(p.Key, p.Value)))
              ELSE TwoKeys(B("configs"), stringMap(OneKey(p.Key, p.Value)),
                           B("tags"), stringMap(p.Tags))>>)

\* UpsertSecret, "Special handling for 401"
authenticationLog(c) ==
    << <<literal("[ERROR] Authentication failed - check token validity and permissions")>>,
       <<literal("[DEBUG] Endpoint: "), part("url", "none", c.baseURL)>>,
       <<literal("[DEBUG] API Version: "), part("config", "none", c.apiVersion)>> >>

\* the records UpsertSecret writes after the response
upsertResponseLog(c, resp) ==
    <<statusRecord(resp.status), headersRecord("[DEBUG] Response headers: ", resp.header)>>
    \o (IF resp.kind = "readError"
        THEN << <<literal("[ERROR] Failed to read response body: "),
                  part("error", "none", B("unexpected EOF"))>> >>
        ELSE << <<literal("[DEBUG] Response body: "), bodyPart(resp.body)>> >>)
    \o (IF resp.status >= 300
        THEN (IF resp.kind # "readError" /\ Len(resp.body) > 0 /\ resp.status = 401
              THEN authenticationLog(c) ELSE <<>>)
        ELSE IF resp.kind = "readError" THEN <<>>
        ELSE << <<literal("[DEBUG] Successfully upserted secret")>> >>)

\* the records of one UpsertSecret(p)
UpsertSecretLog(c, p, resp) ==
    <<urlRecord("[DEBUG] PUT request to: ", requestURL(c, p.Namespace)),
      <<literal("[DEBUG] Request body: "), bodyPart(upsertBody(p))>>,
      headersRecord("[DEBUG] Request headers: ", jsonHeaders(c)),
      tokenRecord(c)>>
    \o (IF resp.kind = "error"
        THEN <<transportErrorRecord("Put", requestURL(c, p.Namespace))>>
        ELSE upsertResponseLog(c, resp))

\* the error UpsertSecret returns, <<>> for nil
UpsertSecretError(c, p, resp) ==
    IF resp.kind = "error"
        THEN B("HTTP request failed: ")
             \o recordText(transportError("Put", requestURL(c, p.Namespace)))
    ELSE IF resp.status >= 300
        THEN B("upsert secret failed (status ") \o Itoa(resp.status)
             \o (IF resp.kind = "readError"
                 THEN B("): unable to read response body: unexpected EOF")
                 ELSE IF Len(resp.body) = 0 THEN B("): empty response body")
                 ELSE B("): ") \o resp.body)
    ELSE IF resp.kind = "readError" THEN B("failed to read response body: unexpected EOF")
    ELSE <<>>

\* the records of one DeleteSecret(ns, key): the request body is not logged
DeleteSecretLog(c, ns, resp) ==
    <<urlRecord("[DEBUG] PUT (delete) request to: ", requestURL(c, ns)),
      headersRecord("[DEBUG] Request headers: ", jsonHeaders(c))>>
    \o (IF resp.kind = "error" THEN <<transportErrorRecord("Put", requestURL(c, ns))>>
        ELSE <<statusRecord(resp.status)>>
             \o (IF resp.status # 404 /\ resp.status >= 300
                 THEN << <<literal("[ERROR] Delete secret failed (status "),
                           statusPart(resp.status), literal("): "), bodyPart(resp.body)>> >>
                 ELSE <<>>))

\* the error DeleteSecret returns, <<>> for nil
DeleteSecretError(c, ns, resp) ==
    IF resp.kind = "error"
        THEN B("HTTP request failed: ")
             \o recordText(transportError("Put", requestURL(c, ns)))
    ELSE IF resp.status # 404 /\ resp.status >= 300
        THEN B("delete secret failed (status ") \o Itoa(resp.status) \o B("): ") \o resp.body
    ELSE <<>>

\* Tokens of 9, 10 and 18 bytes.
Tokens == { B("s3cr3t-99"), B("tk-Qw8zLp2"), B("tk-live-9f8e7d6c5b") }

Clients ==
    { [baseURL |-> B("https://ygg.example"), token |-> tk, apiVersion |-> B("v2")] :
        tk \in Tokens }

Namespaces == { B("prod"), B("dev?sig=0123456789abcdefXYZ") }

SecretKeys == { B("db_password") }

Payloads ==
    { [Namespace |-> B("prod"), Key |-> B("db_password"),
       Value |-> B("hunter2hunter2hunter2"), Tags |-> <<>>],
      [Namespace |-> B("prod"), Key |-> B("name"), Value |-> B("x"),
       Tags |-> OneKey(B("team"), B("core"))] }

responseBodies ==
    { <<>>, B("{\"db_password\":\"hunter2\",\"name\":\"x\"}"), B("error: bad Bearer abc") }

responseHeaders ==
    { OneKey(B("Content-Type"), <<B("application/json")>>),
      OneKey(B("Set-Cookie"), <<B("sid=0123456789abcdefXYZ")>>) }

\* What the server and the transport can answer: no response, a response
\* whose body cannot be read, a response.
Responses ==
    { [kind |-> "error", status |-> 0, header |-> <<>>, body |-> <<>>] }
    \cup { [kind |-> "readError", status |-> s, header |-> h, body |-> <<>>] :
             s \in {200, 401}, h \in responseHeaders }
    \cup { [kind |-> "ok", status |-> s, header |-> h, body |-> b] :
             s \in {200, 401, 404}, h \in responseHeaders, b \in responseBodies }

\* newClient: the client holds the endpoint, the token and the API version
ClientInit ==
    /\ client \in Clients
    /\ log = <<>>
    /\ calls = 0
    /\ pc = "ready"
    /\ fn = ""
    /\ arg = <<>>
    /\ out = <<>>
    /\ heap = <<>>

\* the call f(a) wrote the records and returned the error
Done(f, a, records, error) ==
    /\ log' = log \o records
    /\ fn' = f
    /\ arg' = a
    /\ out' = error
    /\ calls' = calls + 1
    /\ UNCHANGED <<pc, heap, client>>

GetSecret ==
    /\ calls < MaxOps
    /\ \E ns \in Namespaces, key \in SecretKeys, resp \in Responses :
           Done("GetSecret", <<ns, key>>, GetSecretLog(client, ns, resp),
                GetSecretError(client, ns, resp))

UpsertSecret ==
    /\ calls < MaxOps
    /\ \E p \in Payloads, resp \in Responses :
           Done("UpsertSecret", p, UpsertSecretLog(client, p, resp),
                UpsertSecretError(client, p, resp))

DeleteSecret ==
    /\ calls < MaxOps
    /\ \E ns \in Namespaces, key \in SecretKeys, resp \in Responses :
           Done("DeleteSecret", <<ns, key>>, DeleteSecretLog(client, ns, resp),
                DeleteSecretError(client, ns, resp))

ClientNext ==
    \/ GetSecret
    \/ UpsertSecret
    \/ DeleteSecret

ClientSpec == ClientInit /\ [][ClientNext]_vars

(***************************************************************************)
(* Claims                                                                  *)
(***************************************************************************)

\* the key's lower-cased form contains an entry of the vocabulary
HasVocabularySubstring(key) ==
    \E i \in 1..Len(sensitiveKeySubstr) :
        \E j \in 1..Len(key) :
            /\ j + Len(sensitiveKeySubstr[i]) - 1 <= Len(key)
            /\ \A d \in 1..Len(sensitiveKeySubstr[i]) :
                 ToLower(key)[j + d - 1] = sensitiveKeySubstr[i][d]

\* C1: SafeValue returns exactly the mask "****" for every field name whose
\* lower-cased form contains a vocabulary entry, whatever the type and the
\* content of the value.
C1_SafeValueMasksSensitive ==
    (pc = "done" /\ fn = "SafeValue" /\ HasVocabularySubstring(arg[1]))
        => out = <<"string", B("****")>>

\* C1 witness: a mixed-case compound name with a map value was masked.
C1_Witness ==
    /\ pc = "done" /\ fn = "SafeValue"
    /\ arg[1] = B("ApiKeyValue")
    /\ arg[2][1] = "map[string]any"
    /\ out = <<"string", B("****")>>

\* C5 (as stated): at most 16 bytes are returned unchanged, longer strings
\* become first 8 bytes + U+2026 + last 8 bytes, and the result is strictly
\* shorter than the input whenever the input is longer than 17 bytes.
C5_PreviewAsClaimed ==
    (pc = "done" /\ fn = "TruncatePreview") =>
        /\ Len(arg) <= 16 => out = arg
        /\ Len(arg) > 16 =>
             out = SubSeq(arg, 1, 8) \o ellipsis \o SubSeq(arg, Len(arg) - 7, Len(arg))
        /\ Len(arg) > 17 => Len(out) < Len(arg)

\* What TruncatePreview does in bytes: a preview is 19 bytes long, the
\* ellipsis taking three of them, so an input of 17 or 18 bytes grows and only
\* an input of more than 19 bytes shrinks.
PreviewIs19Bytes ==
    (pc = "done" /\ fn = "TruncatePreview") =>
        /\ Len(arg) <= 16 => out = arg
        /\ Len(arg) > 16 =>
             /\ out = SubSeq(arg, 1, 8) \o ellipsis \o SubSeq(arg, Len(arg) - 7, Len(arg))
             /\ Len(out) = 19
        /\ Len(arg) > 19 => Len(out) < Len(arg)

isMap(v) == v[1] \in {"map[string]any", "map[string]string"}

RECURSIVE SensitiveEntriesMasked(_)
\* every entry of the value v, at any depth, whose key is classified
\* sensitive holds the mask
SensitiveEntriesMasked(v) ==
    IF v[1] = "map[string]any"
        THEN \A k \in DOMAIN v[2] :
                /\ HasVocabularySubstring(k) => v[2][k] = <<"string", B("****")>>
                /\ SensitiveEntriesMasked(v[2][k])
    ELSE IF v[1] = "map[string]string"
        THEN \A k \in DOMAIN v[2] : HasVocabularySubstring(k) => v[2][k] = B("****")
    ELSE IF v[1] = "[]any"
        THEN \A i \in 1..Len(v[2]) : SensitiveEntriesMasked(v[2][i])
    ELSE TRUE

\* C2 (as stated): in the mapping SafeFields returns, every entry at any depth
\* whose key is classified sensitive holds exactly the mask, a nested mapping
\* under a sensitive key and a mapping inside a sequence included.
C2_SensitiveEntriesMasked ==
    (pc = "done" /\ fn = "SafeFields") =>
        SensitiveEntriesMasked(<<"map[string]any", out>>)

RECURSIVE SameShape(_, _)
\* the output o holds a mapping with the key set of the input mapping i, at
\* every nesting level
SameShape(i, o) ==
    /\ o[1] = "map[string]any"
    /\ DOMAIN o[2] = DOMAIN i[2]
    /\ i[1] = "map[string]any" =>
          \A k \in DOMAIN i[2] : isMap(i[2][k]) => SameShape(i[2][k], o[2][k])

\* C9: SafeFields preserves the shape: the output has the key set of the
\* input, and a mapping with the same key set wherever the input holds a
\* nested mapping, at every nesting level.
C9_ShapePreserved ==
    (pc = "done" /\ fn = "SafeFields") =>
        SameShape(<<"map[string]any", arg>>, <<"map[string]any", out>>)

\* C9 witness: a mapping nested two levels deep kept its keys.
C9_Witness ==
    /\ pc = "done" /\ fn = "SafeFields"
    /\ \E k1, k2, k3 \in FieldKeys :
          /\ k1 \in DOMAIN arg /\ arg[k1][1] = "map[string]any"
          /\ k2 \in DOMAIN arg[k1][2]
          /\ isMap(arg[k1][2][k2]) /\ k3 \in DOMAIN arg[k1][2][k2][2]
          /\ out[k1][1] = "map[string]any"
          /\ DOMAIN out[k1][2][k2][2] = DOMAIN arg[k1][2][k2][2]

\* a header name that is classified sensitive or is Authorization or Cookie,
\* in any case
MaskedHeader(name) ==
    \/ HasVocabularySubstring(name)
    \/ ToLower(name) \in { B("authorization"), B("cookie") }

\* C6: RedactHTTPHeaders keeps the set of header names; a sensitive header,
\* Authorization and Cookie map to the one-element list of the mask whatever
\* their values; every other header keeps the number and order of its values,
\* each replaced by its preview.
C6_HeadersRedacted ==
    (pc = "done" /\ fn = "RedactHTTPHeaders") =>
        /\ DOMAIN out = DOMAIN arg
        /\ \A name \in DOMAIN arg :
              IF MaskedHeader(name) THEN out[name] = << B("****") >>
              ELSE /\ Len(out[name]) = Len(arg[name])
                   /\ \A i \in 1..Len(arg[name]) :
                         out[name][i] = TruncatePreview(arg[name][i])

\* C6 witness: a Cookie header with two values became one mask while another
\* header of the same set kept its two values, a long one as its preview.
C6_Witness ==
    /\ pc = "done" /\ fn = "RedactHTTPHeaders"
    /\ DOMAIN arg = { B("Cookie"), B("Accept") }
    /\ Len(arg[B("Cookie")]) = 2 /\ out[B("Cookie")] = << B("****") >>
    /\ Len(out[B("Accept")]) = 2
    /\ out[B("Accept")][2] # arg[B("Accept")][2]

\* the parameters of a raw URL, as url.ParseQuery reads them
ParamsOf(raw) == ParseQuery(Cut(raw, "?")[2])

\* the value a parameter is to show in the redacted query
RedactedParam(name, value, extra) ==
    IF \/ HasVocabularySubstring(name)
       \/ \E i \in 1..Len(extra) : ToLower(extra[i]) = ToLower(name)
    THEN B("****") ELSE TruncatePreview(value)

\* C7 (as stated): every parameter occurrence of a parseable URL appears in
\* the output under its name, masked if the name is sensitive or an extra
\* name and as the preview of its own value otherwise, also when a name occurs
\* more than once; scheme, host and path are unchanged.
C7_EveryParamRedacted ==
    (pc = "done" /\ fn = "RedactURLQuery" /\ ~Parse(arg[1]).err) =>
        /\ Cut(out, "?")[1] = Cut(arg[1], "?")[1]
        /\ \A name \in { ParamsOf(arg[1])[i][1] : i \in 1..Len(ParamsOf(arg[1])) } :
              LET given == valuesNamed(ParamsOf(arg[1]), name, 1)
                  shown == valuesNamed(ParamsOf(out), name, 1)
              IN  /\ Len(shown) = Len(given)
                  /\ \A i \in 1..Len(given) :
                        shown[i] = RedactedParam(name, given[i], arg[2])

\* The example of RedactURLQuery: token is masked and page stays 2.
URLExample ==
    (pc = "done" /\ fn = "RedactURLQuery" /\ arg[2] = <<>>
        /\ arg[1] = B("https://x/y?token=abcdef123456&page=2")) =>
        /\ Query(Cut(out, "?")[2]) =
              TwoKeys(B("token"), << B("****") >>, B("page"), << B("2") >>)
        /\ out = B("https://x/y?page=2&token=%2A%2A%2A%2A")

RECURSIVE JSONRedacted(_, _)
\* the document o is the document i with the value of every sensitive key
\* replaced by the mask, every other string by its preview, and numbers,
\* booleans and null as they were
JSONRedacted(i, o) ==
    IF i[1] = "map[string]any"
        THEN /\ o[1] = "map[string]any"
             /\ DOMAIN o[2] = DOMAIN i[2]
             /\ \A k \in DOMAIN i[2] :
                   IF HasVocabularySubstring(k) THEN o[2][k] = <<"string", B("****")>>
                   ELSE JSONRedacted(i[2][k], o[2][k])
    ELSE IF i[1] = "[]any"
        THEN /\ o[1] = "[]any"
             /\ Len(o[2]) = Len(i[2])
             /\ \A n \in 1..Len(i[2]) : JSONRedacted(i[2][n], o[2][n])
    ELSE IF i[1] = "string"
        THEN o = <<"string", TruncatePreview(i[2])>>
    ELSE o = i

\* C3 (as stated): in the output of RedactJSONBytes on a valid document every
\* member with a sensitive key, at any depth, holds the mask; every other
\* string leaf is the preview of the original string; numbers, booleans and
\* null are unchanged.
C3_DocumentRedacted ==
    (pc = "done" /\ fn = "RedactJSONBytes" /\ calls = 1 /\ ~Unmarshal(arg).err) =>
        /\ ~Unmarshal(out).err
        /\ JSONRedacted(Unmarshal(arg).m, Unmarshal(out).m)

\* C10 (as stated): on a valid document a second RedactJSONBytes returns a
\* buffer that decodes to the document the first one returned.
C10_Idempotent ==
    (pc = "done" /\ fn = "RedactJSONBytes" /\ calls >= 2 /\ ~Unmarshal(arg).err) =>
        /\ ~Unmarshal(out).err
        /\ Unmarshal(out).m = Unmarshal(arg).m

RECURSIVE NoSensitiveKey(_)
\* no object of the document d has a key that is classified sensitive
NoSensitiveKey(d) ==
    IF d[1] = "map[string]any"
        THEN \A k \in DOMAIN d[2] : ~HasVocabularySubstring(k) /\ NoSensitiveKey(d[2][k])
    ELSE IF d[1] = "[]any" THEN \A n \in 1..Len(d[2]) : NoSensitiveKey(d[2][n])
    ELSE TRUE

RECURSIVE ShortLeaves(_)
\* every string leaf of the document d has at most 16 bytes
ShortLeaves(d) ==
    IF d[1] = "map[string]any" THEN \A k \in DOMAIN d[2] : ShortLeaves(d[2][k])
    ELSE IF d[1] = "[]any" THEN \A n \in 1..Len(d[2]) : ShortLeaves(d[2][n])
    ELSE IF d[1] = "string" THEN Len(d[2]) <= 16
    ELSE TRUE

C12_FailOpen ==
    /\ (pc = "done" /\ fn = "RedactJSONBytes" /\ Unmarshal(arg).err) => out = arg
    /\ (pc = "done" /\ fn = "RedactURLQuery" /\ Parse(arg[1]).err) => out = arg[1]

\* C12 witness: a document followed by a stray byte came back as it was.
C12_Witness ==
    /\ pc = "done" /\ fn = "RedactJSONBytes" /\ calls = 1
    /\ arg = B("{\"a\":1}x") /\ Unmarshal(arg).err
    /\ out = B("{\"a\":1}x")

\* a URL with a bad escape in its path and a sensitive parameter came back
\* as it was
MalformedURLReturned ==
    /\ pc = "done" /\ fn = "RedactURLQuery"
    /\ arg[1] = B("https://x/%zz?token=abcdef123456") /\ Parse(arg[1]).err
    /\ out = arg[1]

\* the headers of the header map at address a, as a map of value lists
headersAt(h, a) == [k \in DOMAIN h[a][2] |-> h[h[a][2][k][2]][2]]

\* On the heap every adapter returns what it returns as a function of the
\* values.
HeapAgrees ==
    pc = "done" =>
        /\ fn = "SafeFields" =>
              load(heap, out) = <<"map[string]any", SafeFields(load(heap, arg)[2])>>
        /\ fn = "RedactHTTPHeaders" =>
              headersAt(heap, out[2]) = RedactHTTPHeaders(headersAt(heap, arg[2]))
        /\ fn = "RedactJSONBytes" =>
              heap[out[2]][2] = RedactJSONBytes(heap[arg[2]][2])

\* C13: no adapter mutates caller-owned input: over a call of SafeFields,
\* RedactHTTPHeaders, RedactURLQuery or RedactJSONBytes every object that
\* was on the heap when the call was made (the map and its nested maps, the
\* header map and its value lists, the buffer) holds what it held; what the
\* adapter writes, it writes to objects it allocated.
C13_InputsUntouched ==
    [][ (pc = "call" /\ pc' = "done") =>
            /\ Len(heap') >= Len(heap)
            /\ \A a \in 1..Len(heap) : heap'[a] = heap[a] ]_vars

\* C13 witness: SafeFields returned a new map with the mask under "secret"
\* and a new nested map, and the caller's maps still hold the values.
C13_Witness ==
    /\ pc = "done" /\ fn = "SafeFields" /\ out # arg
    /\ heap[arg[2]][1] = "map[string]any" /\ B("name") \in DOMAIN heap[arg[2]][2]
    /\ isRefTo(heap, heap[arg[2]][2][B("name")], "map[string]any")
    /\ load(heap, heap[arg[2]][2][B("name")]) =
           <<"map[string]any", OneKey(B("secret"), <<"string", B("abcdefghijklmnopqrstuvwxyz")>>)>>
    /\ isRefTo(heap, heap[out[2]][2][B("name")], "map[string]any")
    /\ heap[out[2]][2][B("name")] # heap[arg[2]][2][B("name")]
    /\ load(heap, heap[out[2]][2][B("name")]) =
           <<"map[string]any", OneKey(B("secret"), <<"string", B("****")>>)>>

\* RedactJSONBytes wrote the previews into the slice of the decoded tree,
\* which it allocated, and returned a new buffer
DecodedSliceWritten ==
    /\ pc = "done" /\ fn = "RedactJSONBytes" /\ out # arg
    /\ \E a \in 2..Len(heap) :
          heap[a] = <<"[]any", << <<"string", B("abcde_01") \o ellipsis \o B("456789AB")>> >> >>

\* the redaction adapters a log argument can go through
logAdapters == {"RedactHTTPHeaders", "RedactURLQuery", "RedactBytesChain"}

\* the text holds raw characters of the token: four bytes in a row of it
HoldsTokenBytes(text, token) ==
    \E i \in 1..(Len(token) - 3) : Contains(text, SubSeq(token, i, i + 3))

\* C14 (as stated): the log surfaces of the HTTP client are fully redacted:
\* over any sequence of GetSecret, UpsertSecret and DeleteSecret and any
\* responses, every part of a log record whose data comes from the token, a
\* header set, a URL or a body is the output of RedactHTTPHeaders,
\* RedactURLQuery or RedactBytesChain, and no record holds raw characters
\* of the token, whatever its length.
C14_LogRedacted ==
    \A r \in 1..Len(log) :
        /\ \A i \in 1..Len(log[r]) :
              log[r][i].src \in {"token", "headers", "url", "body"}
                  => log[r][i].via \in logAdapters
        /\ ~HoldsTokenBytes(recordText(log[r]), client.token)

\* Every header set and every body in the log went through its adapter, and
\* no record of a header set, a URL given to RedactURLQuery or a body holds
\* raw characters of the token.
HeadersAndBodiesRedacted ==
    \A r \in 1..Len(log) : \A i \in 1..Len(log[r]) :
        /\ log[r][i].src \in {"headers", "body"} => log[r][i].via \in logAdapters
        /\ log[r][i].via \in logAdapters => ~HoldsTokenBytes(log[r][i].text, client.token)

\* UpsertSecret wrote the first eight bytes of a token of eighteen.
TokenPreviewLogged ==
    /\ fn = "UpsertSecret" /\ client.token = B("tk-live-9f8e7d6c5b")
    /\ \E r \in 1..Len(log) :
          recordText(log[r]) = B("[DEBUG] Token length: 18, preview: tk-live-...")

\* the string is the pairs of SafeFields(fields) in some order
IsRendering(s, fields) == \E order \in Orders(DOMAIN fields) : s = SafeKVString(fields, order)

\* C15 (as stated): SafeKVString is a deterministic function of its input:
\* every call returns the space-separated key=value pairs of
\* SafeFields(fields), strings raw and other values JSON-encoded, and a
\* second call with the same mapping returns the string the first returned,
\* whatever the order in which the entries are visited.
C15_Deterministic ==
    [][ (fn' = "SafeKVString" /\ pc' = "done") =>
            /\ IsRendering(out', arg')
            /\ pc = "done" => out' = out ]_vars

\* Every call returns the pairs of SafeFields(fields) in one of the orders,
\* and a mapping of at most one field has one string.
PairsRendered ==
    (fn = "SafeKVString" /\ pc = "done") =>
        /\ IsRendering(out, arg)
        /\ Cardinality(DOMAIN arg) <= 1 => out = SafeKVString(arg, SortedKeys(DOMAIN arg))

\* two calls with one mapping of two fields returned two strings
TwoOrdersReturned ==
    /\ fn = "SafeKVString" /\ pc = "done" /\ calls = 2
    /\ arg = TwoKeys(B("secret"), <<"float64", 2>>, B("name"), longString)
    /\ out = B("name=abcdefgh") \o ellipsis \o B("stuvwxyz secret=****")

\* the literal lit occurs in s, letters compared without their case
OccursFolded(s, lit) ==
    \E i \in 1..Len(s) :
        /\ i + Len(lit) - 1 <= Len(s)
        /\ \A d \in 1..Len(lit) : ToLower(<<s[i + d - 1]>>) = <<lit[d]>>

\* C4: with r = RedactPEM(RedactJSONBytes(body)), RedactBytesChain returns the
\* mask alone if r holds "authorization:" or "bearer " in any case and r
\* otherwise, so no output holds either literal; the scan reads r and not
\* the body: the document {"authorization": "Bearer xyz"} keeps its redacted
\* form and a plain body with an Authorization line becomes the mask.
C4_ChainCollapses ==
    (pc = "done" /\ fn = "RedactBytesChain") =>
        LET r == RedactPEM(RedactJSONBytes(arg))
        IN  /\ out = IF OccursFolded(r, B("authorization:")) \/ OccursFolded(r, B("bearer "))
                     THEN B("****") ELSE r
            /\ ~OccursFolded(out, B("authorization:"))
            /\ ~OccursFolded(out, B("bearer "))
            /\ arg = B("{\"authorization\": \"Bearer xyz\"}")
                  => out = B("{\"authorization\":\"****\"}")
            /\ arg = B("Authorization: Bearer abc") => out = B("****")

\* C4 witness: a document that holds "bearer " under a sensitive key was
\* returned in its redacted form, not as the mask.
C4_Witness ==
    /\ pc = "done" /\ fn = "RedactBytesChain"
    /\ OccursFolded(arg, B("bearer "))
    /\ out = B("{\"authorization\":\"****\"}")

NoDash(s, from, to) == \A i \in from..to : s[i] # "-"

\* the indices where the literal lit starts in s
Occurrences(s, lit) ==
    { p \in 1..(Len(s) - Len(lit) + 1) : \A d \in 1..Len(lit) : s[p + d - 1] = lit[d] }

\* the complete blocks of s, as <<first index, last index>>: s[i..j] is a
\* BEGIN line with a label (its dashes at a), at least one byte of content,
\* and an END line (at b) with a label
Blocks(s) ==
    LET begins == Occurrences(s, B("-----BEGIN "))
        ends   == Occurrences(s, B("-----END "))
        dashes == Occurrences(s, B("-----"))
    IN  { ij \in begins \X { p + 4 : p \in dashes } :
            \E a \in dashes, b \in ends :
                /\ a > ij[1] + 11 /\ NoDash(s, ij[1] + 11, a - 1)
                /\ b > a + 5
                /\ ij[2] - 4 > b + 9 /\ NoDash(s, b + 9, ij[2] - 5) }

RECURSIVE BlocksMasked(_)
\* s with the leftmost block, at its shortest, replaced by the mask, and so on
\* in what follows it
BlocksMasked(s) ==
    LET all == Blocks(s)
    IN  IF all = {} THEN s
        ELSE LET first == CHOOSE x \in all :
                             \A y \in all : x[1] < y[1] \/ (x[1] = y[1] /\ x[2] <= y[2])
             IN  SubSeq(s, 1, first[1] - 1) \o B("****")
                 \o BlocksMasked(SubSeq(s, first[2] + 1, Len(s)))

\* C8: RedactPEM replaces each complete block, matched leftmost and at its
\* shortest, whatever its labels, by one mask, copies every byte outside the
\* blocks in its order, and returns a text without a complete block unchanged.
C8_BlocksMasked ==
    (pc = "done" /\ fn = "RedactPEM") =>
        /\ out = BlocksMasked(arg)
        /\ Blocks(arg) = {} => out = arg

\* C8 witness: two blocks with prose before and between them became two
\* masks and the prose stayed.
C8_Witness ==
    /\ pc = "done" /\ fn = "RedactPEM"
    /\ Cardinality({ ij[1] : ij \in Blocks(arg) }) = 2
    /\ out = B("****ab\n****")

=============================================================================
